---- MODULE Spec2Model ----
(***************************************************************************)
(* RainbowDesktop (src/main.py): scan the user's and the public desktop,   *)
(* extract an icon for every .lnk / .url shortcut, sort the icons by the   *)
(* hue of their average colour and print the report.                       *)
(*                                                                         *)
(* Strings are sequences of one-character strings, so that endswith,       *)
(* partition, split and os.path.join are computed as Python computes them. *)
(***************************************************************************)
EXTENDS Integers, Sequences, FiniteSets, TLC

\* Largest total number of directory entries on the two desktops together.
MaxFiles == 3

None == "None"

-----------------------------------------------------------------------------
(* String helpers (str.endswith, str.partition, str.split, str.isdigit, int) *)

EndsWith(s, suffix) ==
    /\ Len(s) >= Len(suffix)
    /\ SubSeq(s, Len(s) - Len(suffix) + 1, Len(s)) = suffix

\* Index of the first occurrence of character c in s, 0 when there is none.
Find(s, c) ==
    IF \E i \in 1..Len(s) : s[i] = c
    THEN CHOOSE i \in 1..Len(s) : s[i] = c /\ \A j \in 1..(i - 1) : s[j] # c
    ELSE 0

\* Index of the last occurrence of character c in s, 0 when there is none.
RFind(s, c) ==
    IF \E i \in 1..Len(s) : s[i] = c
    THEN CHOOSE i \in 1..Len(s) : s[i] = c /\ \A j \in (i + 1)..Len(s) : s[j] # c
    ELSE 0

\* s.partition(c): <<head, sep, tail>>; <<s, "", "">> when c is not in s.
Partition(s, c) ==
    LET i == Find(s, c)
    IN  IF i = 0 THEN <<s, <<>>, <<>>>>
        ELSE <<SubSeq(s, 1, i - 1), <<c>>, SubSeq(s, i + 1, Len(s))>>

\* s.split(c)[-1]
SplitLast(s, c) == SubSeq(s, RFind(s, c) + 1, Len(s))

\* s.split(c)[0]
SplitFirst(s, c) == Partition(s, c)[1]

Digits == <<"0", "1", "2", "3", "4", "5", "6", "7", "8", "9">>

\* str.isdigit(): non-empty and every character a digit.
IsDigit(s) == Len(s) > 0 /\ \A i \in 1..Len(s) : \E d \in 1..10 : Digits[d] = s[i]

DigitValue(c) == (CHOOSE d \in 1..10 : Digits[d] = c) - 1

RECURSIVE ToInt(_)
ToInt(s) == IF s = <<>> THEN 0
            ELSE 10 * ToInt(SubSeq(s, 1, Len(s) - 1)) + DigitValue(s[Len(s)])

\* os.path.join(directory, file) on Windows, for a relative file name.
PathJoin(directory, file) == directory \o <<"\\">> \o file

-----------------------------------------------------------------------------
(* The file names and icon-bearing files the model draws its inputs from.  *)

A_lnk == <<"A", ".", "l", "n", "k">>
B_lnk == <<"B", ".", "l", "n", "k">>
C_txt == <<"C", ".", "t", "x", "t">>
D_url == <<"D", ".", "v", "2", ".", "u", "r", "l">>
E_url == <<"E", ".", "u", "r", "l">>
F_lnk == <<"F", ".", "l", "n", "k">>
desktop_ini == <<"d", "e", "s", "k", "t", "o", "p", ".", "i", "n", "i">>

\* Candidate directory entries, in the order os.listdir reports them.
Names == <<A_lnk, B_lnk, C_txt, D_url, E_url, F_lnk, desktop_ini>>

USERPROFILE == <<"U">>
PUBLIC == <<"P">>
user_desktop == PathJoin(USERPROFILE, <<"D", "e", "s", "k", "t", "o", "p">>)
public_desktop == PathJoin(PUBLIC, <<"D", "e", "s", "k", "t", "o", "p">>)
Desktops == <<user_desktop, public_desktop>>

\* Icon-bearing files: red, blue, pink (hue just below 1), grey, one
\* without any icon, and one that is not on disk.
red_exe == <<"r">>
blue_exe == <<"b">>
pink_exe == <<"p">>
grey_exe == <<"g">>
noicon_dll == <<"n">>
gone_exe == <<"x">>

Disk == {red_exe, blue_exe, pink_exe, grey_exe, noicon_dll}

\* win32gui.ExtractIconEx(file, nIconIndex): the handles of the large and
\* the small icon at that index; every file here holds at most one icon.
ExtractIconEx(file, nIconIndex) ==
    CASE nIconIndex # 0 -> [large |-> <<>>, small |-> <<>>]
      [] file \in {red_exe, blue_exe} -> [large |-> <<"hLarge">>, small |-> <<"hSmall">>]
      [] file = grey_exe -> [large |-> <<"hLarge">>, small |-> <<>>]
      [] file = pink_exe -> [large |-> <<>>, small |-> <<"hSmall">>]
      [] OTHER -> [large |-> <<>>, small |-> <<>>]

\* The bits DrawIconEx paints for the icon of a file, in BGRA byte order.
IconBits(file) ==
    CASE file = red_exe -> <<0, 0, 255, 255>>
      [] file = blue_exe -> <<255, 0, 0, 255>>
      [] file = pink_exe -> <<10, 0, 255, 255>>
      [] OTHER -> <<128, 128, 128, 255>>

Comma == ","

\* WScript.Shell CreateShortCut(path): the link's IconLocation and TargetPath.
CreateShortCut(p) ==
    CASE p = PathJoin(user_desktop, A_lnk) ->
            [IconLocation |-> blue_exe \o <<Comma, "3">>, TargetPath |-> gone_exe]
      [] p = PathJoin(user_desktop, B_lnk) ->
            [IconLocation |-> <<Comma, "0">>, TargetPath |-> red_exe]
      [] p = PathJoin(public_desktop, A_lnk) ->
            [IconLocation |-> gone_exe \o <<Comma, "k">>, TargetPath |-> gone_exe]
      [] p = PathJoin(user_desktop, F_lnk) ->
            [IconLocation |-> gone_exe \o <<Comma, "0">>, TargetPath |-> red_exe]
      [] p = PathJoin(public_desktop, F_lnk) ->
            [IconLocation |-> red_exe \o <<Comma, "k">>, TargetPath |-> gone_exe]
      [] OTHER ->
            [IconLocation |-> pink_exe, TargetPath |-> noicon_dll]

\* configparser.read(path): the sections of the .url file, as a set of
\* <<section, key, value>> triples.
InternetShortcut == "InternetShortcut"
IconFile == "IconFile"

ParseUrlFile(p) ==
    CASE p = PathJoin(user_desktop, D_url) ->
            {<<InternetShortcut, "URL", <<"h">>>>, <<InternetShortcut, IconFile, grey_exe>>}
      [] p = PathJoin(public_desktop, D_url) ->
            {<<InternetShortcut, "URL", <<"h">>>>}
      [] p = PathJoin(user_desktop, E_url) ->
            {<<"Other", IconFile, red_exe>>}
      [] OTHER ->
            {<<InternetShortcut, IconFile, noicon_dll>>}

-----------------------------------------------------------------------------
(* Hue analysis and sorting                                                *)

Max3(a, b, c) == IF a >= b /\ a >= c THEN a ELSE IF b >= c THEN b ELSE c
Min3(a, b, c) == IF a <= b /\ a <= c THEN a ELSE IF b <= c THEN b ELSE c

\* colorsys.rgb_to_hsv(r, g, b)[0] as the exact fraction <<numerator, denominator>>.
rgb_to_hsv_h(r, g, b) ==
    LET maxc == Max3(r, g, b)
        minc == Min3(r, g, b)
        d == maxc - minc
        h == IF r = maxc THEN g - b
             ELSE IF g = maxc THEN 2 * d + (b - r)
             ELSE 4 * d + (r - g)
    IN  IF minc = maxc THEN <<0, 1>> ELSE <<h % (6 * d), 6 * d>>

\* get_average_hue: an image is the RGBA colour of a flat icon; convert("RGB")
\* drops the alpha channel and the 1x1 resize of a flat image is its colour.
get_average_hue(image_data) ==
    rgb_to_hsv_h(image_data[1], image_data[2], image_data[3])

\* h1 < h2 for two hue fractions.
HueLess(h1, h2) == h1[1] * h2[2] < h2[1] * h1[2]

\* Mutant: the item goes before the elements of equal hue.
InsertBeforeEqualHue(sorted, item) ==
    LET later == {i \in 1..Len(sorted) :
                    ~HueLess(get_average_hue(sorted[i].img), get_average_hue(item.img))}
        at == IF later = {} THEN Len(sorted) + 1
              ELSE CHOOSE i \in later : \A j \in later : i <= j
    IN  SubSeq(sorted, 1, at - 1) \o <<item>> \o SubSeq(sorted, at, Len(sorted))

\* Insert item after every element whose key is not greater (stable).
InsertByHue(sorted, item) ==
    LET later == {i \in 1..Len(sorted) :
                    HueLess(get_average_hue(item.img), get_average_hue(sorted[i].img))}
        at == IF later = {} THEN Len(sorted) + 1
              ELSE CHOOSE i \in later : \A j \in later : i <= j
    IN  SubSeq(sorted, 1, at - 1) \o <<item>> \o SubSeq(sorted, at, Len(sorted))

RECURSIVE SortedByHue(_)
SortedByHue(items) ==
    IF items = <<>> THEN <<>>
    ELSE InsertByHue(SortedByHue(SubSeq(items, 1, Len(items) - 1)), items[Len(items)])

\* sort_icons_by_color: OrderedDict(sorted(icons.items(), key=hue)).
sort_icons_by_color(items) == SortedByHue(items)

-----------------------------------------------------------------------------
(* Dictionary and report helpers                                           *)

Keys(d) == {d[i].path : i \in 1..Len(d)}

\* icons[path] = img_bytes on an insertion-ordered dict.
DictSet(d, k, v) ==
    IF k \in Keys(d)
    THEN [i \in 1..Len(d) |-> IF d[i].path = k THEN [path |-> k, img |-> v] ELSE d[i]]
    ELSE Append(d, [path |-> k, img |-> v])

RECURSIVE IntToStr(_)
IntToStr(n) == IF n < 10 THEN <<Digits[n + 1]>>
               ELSE IntToStr(n \div 10) \o <<Digits[(n % 10) + 1]>>

\* Mutant: enumerate without start=1.
SortedLineFromZero(i, k) ==
    IntToStr(i - 1) \o <<".", " ">> \o SplitFirst(SplitLast(k, "\\"), ".")

\* f"{i}. {k.split('\\')[-1].split('.')[0]}"
SortedLine(i, k) == IntToStr(i) \o <<".", " ">> \o SplitFirst(SplitLast(k, "\\"), ".")

RECURSIVE JoinNames(_)
\* ", ".join(u.split("\\")[-1] for u in paths)
JoinNames(paths) ==
    IF paths = <<>> THEN <<>>
    ELSE IF Len(paths) = 1 THEN SplitLast(paths[1], "\\")
    ELSE SplitLast(paths[1], "\\") \o <<",", " ">> \o JoinNames(Tail(paths))

-----------------------------------------------------------------------------
(* Program state                                                           *)

VARIABLES
    userDir,        \* os.listdir(user_desktop)
    publicDir,      \* os.listdir(public_desktop)
    pc,             \* position of the run
    files,          \* get_icons: files
    fi,             \* index of the current file of the outer loop
    di,             \* index of the current desktop of the inner loop
    icons,          \* get_icons: icons, in insertion order
    unsortable,     \* get_icons: unsortable
    path,           \* get_icons: path
    icon_path,      \* extract_icon_from_shortcut / _url: icon_path
    icon_index,     \* extract_icon_from_shortcut: icon_index
    exe_path,       \* extract_icon_from_file: exe_path (empty: not called)
    call_args,      \* arguments of the last ExtractIconEx call (empty: none)
    icon_handle,    \* extract_icon_from_file: icon_handle
    bitmap_bits,    \* the bits painted into the bitmap
    image,          \* extract_icon_from_file: image
    img_bytes,      \* result of the extraction (empty: None)
    held,           \* resources the current extraction acquired and holds
    errlog,         \* paths printed by the except clause
    trace,          \* history: the outcome of every path processed
    sorted_icons,   \* __main__: sorted_icons
    out             \* lines printed by __main__

scanVars == <<userDir, publicDir, files>>
frameVars == <<path, icon_path, icon_index, exe_path, call_args, icon_handle,
               bitmap_bits, image, img_bytes>>
resultVars == <<icons, unsortable, errlog, trace>>
reportVars == <<sorted_icons, out>>
vars == <<scanVars, pc, fi, di, frameVars, held, resultVars, reportVars>>

Range(s) == {s[i] : i \in 1..Len(s)}

RECURSIVE Listing(_)
\* The names with the given indices, in listing order.
Listing(S) ==
    IF S = {} THEN <<>>
    ELSE LET m == CHOOSE i \in S : \A j \in S : i <= j
         IN  <<Names[m]>> \o Listing(S \ {m})

\* os.path.exists
os_path_exists(p) ==
    \/ p \in Disk
    \/ \E n \in Range(userDir) : p = PathJoin(user_desktop, n)
    \/ \E n \in Range(publicDir) : p = PathJoin(public_desktop, n)

Init ==
    /\ \E S \in SUBSET (1..Len(Names)), T \in SUBSET (1..Len(Names)) :
          /\ Cardinality(S) + Cardinality(T) <= MaxFiles
          /\ userDir = Listing(S)
          /\ publicDir = Listing(T)
    /\ pc = "start"
    /\ files = <<>>
    /\ fi = 1
    /\ di = 1
    /\ icons = <<>>
    /\ unsortable = <<>>
    /\ path = <<>>
    /\ icon_path = <<>>
    /\ icon_index = 0
    /\ exe_path = <<>>
    /\ call_args = <<>>
    /\ icon_handle = None
    /\ bitmap_bits = <<>>
    /\ image = <<>>
    /\ img_bytes = <<>>
    /\ held = {}
    /\ errlog = <<>>
    /\ trace = <<>>
    /\ sorted_icons = <<>>
    /\ out = [sorted |-> <<>>, heading |-> FALSE, unsortable |-> <<>>]

-----------------------------------------------------------------------------
(* get_icons                                                               *)

\* The next (file, desktop) pair of the nested loops, with fresh locals.
NextPair ==
    /\ IF di < Len(Desktops) THEN di' = di + 1 /\ fi' = fi
                             ELSE di' = 1 /\ fi' = fi + 1
    /\ path' = <<>>
    /\ icon_path' = <<>>
    /\ icon_index' = 0
    /\ exe_path' = <<>>
    /\ call_args' = <<>>
    /\ icon_handle' = None
    /\ bitmap_bits' = <<>>
    /\ image' = <<>>
    /\ img_bytes' = <<>>
    /\ held' = {}
    /\ pc' = "loop"

Logged(p, result) == Append(trace, [path |-> p, result |-> result])

CurrentPath == PathJoin(Desktops[di], files[fi])

IsShortcut(file) == EndsWith(file, <<".", "l", "n", "k">>)
IsUrl(file) == EndsWith(file, <<".", "u", "r", "l">>)
\* Mutant: the marker file's name compared with a capital D.
IsDesktopIniCapitalised(p) ==
    EndsWith(p, <<"D", "e", "s", "k", "t", "o", "p", ".", "i", "n", "i">>)

IsDesktopIni(p) == EndsWith(p, desktop_ini)

\* lines 203-207
GetIconsBegin ==
    /\ pc = "start"
    /\ files' = userDir \o publicDir
    /\ fi' = 1
    /\ di' = 1
    /\ pc' = "loop"
    /\ UNCHANGED <<userDir, publicDir, frameVars, held, resultVars, reportVars>>

\* lines 213-214: the path does not exist in this desktop
SkipMissing ==
    /\ pc = "loop"
    /\ fi <= Len(files)
    /\ ~os_path_exists(CurrentPath)
    /\ NextPair
    /\ UNCHANGED <<scanVars, resultVars, reportVars>>

\* lines 217-219
EnterShortcut ==
    /\ pc = "loop"
    /\ fi <= Len(files)
    /\ os_path_exists(CurrentPath)
    /\ IsShortcut(files[fi])
    /\ path' = CurrentPath
    /\ pc' = "lnk"
    /\ UNCHANGED <<scanVars, fi, di, icon_path, icon_index, exe_path, call_args,
                   icon_handle, bitmap_bits, image, img_bytes, held,
                   resultVars, reportVars>>

\* lines 222-224
EnterUrl ==
    /\ pc = "loop"
    /\ fi <= Len(files)
    /\ os_path_exists(CurrentPath)
    /\ ~IsShortcut(files[fi])
    /\ IsUrl(files[fi])
    /\ path' = CurrentPath
    /\ pc' = "url"
    /\ UNCHANGED <<scanVars, fi, di, icon_path, icon_index, exe_path, call_args,
                   icon_handle, bitmap_bits, image, img_bytes, held,
                   resultVars, reportVars>>

\* lines 227-230: any other file
Unsupported ==
    /\ pc = "loop"
    /\ fi <= Len(files)
    /\ os_path_exists(CurrentPath)
    /\ ~IsShortcut(files[fi])
    /\ ~IsUrl(files[fi])
    /\ IF IsDesktopIni(CurrentPath)
       THEN /\ unsortable' = unsortable
            /\ trace' = Logged(CurrentPath, "ignored")
       ELSE /\ unsortable' = Append(unsortable, CurrentPath)
            /\ trace' = Logged(CurrentPath, "unsupported")
    /\ NextPair
    /\ UNCHANGED <<scanVars, icons, errlog, reportVars>>

\* Mutant: the result is stored without the test for an icon.
StoreIconUnchecked ==
    /\ pc = "store"
    /\ icons' = DictSet(icons, path, img_bytes)
    /\ trace' = Logged(path, "icon")
    /\ NextPair
    /\ UNCHANGED <<scanVars, unsortable, errlog, reportVars>>

\* lines 220-221 and 225-226: if img_bytes: icons[path] = img_bytes
StoreIcon ==
    /\ pc = "store"
    /\ IF img_bytes # <<>>
       THEN /\ icons' = DictSet(icons, path, img_bytes)
            /\ trace' = Logged(path, "icon")
       ELSE /\ icons' = icons
            /\ trace' = Logged(path, "no icon")
    /\ NextPair
    /\ UNCHANGED <<scanVars, unsortable, errlog, reportVars>>

\* Mutant: the try block around the loops, so that a failure ends the scan.
HandleExceptionEndsScan ==
    /\ pc = "except"
    /\ errlog' = Append(errlog, path)
    /\ trace' = Logged(path, "error")
    /\ held' = {}
    /\ pc' = "sort"
    /\ UNCHANGED <<scanVars, fi, di, frameVars, icons, unsortable, reportVars>>

\* lines 231-232: except Exception as e: print(...)
HandleException ==
    /\ pc = "except"
    /\ errlog' = Append(errlog, path)
    /\ trace' = Logged(path, "error")
    /\ NextPair
    /\ UNCHANGED <<scanVars, icons, unsortable, reportVars>>

\* line 234: the loops are over
ReturnIcons ==
    /\ pc = "loop"
    /\ fi > Len(files)
    /\ pc' = "sort"
    /\ UNCHANGED <<scanVars, fi, di, frameVars, held, resultVars, reportVars>>

-----------------------------------------------------------------------------
(* extract_icon_from_shortcut, extract_icon_from_url                       *)

\* lines 153-157: the part before the first comma, or the target when empty
IconPathOf(icon_location, target_path) ==
    LET head == Partition(icon_location, Comma)[1]
    IN  IF head = <<>> THEN target_path ELSE head

\* line 160
IconIndexOf(icon_location) ==
    LET tail == Partition(icon_location, Comma)[3]
    IN  IF IsDigit(tail) THEN ToInt(tail) ELSE 0

\* Mutant: the parsed index is handed on to ExtractIconEx.
IconIndexArgParsed(index) == index

\* line 61: the index passed to ExtractIconEx
IconIndexArg(index) == 0

\* lines 151-166
ExtractIconFromShortcut ==
    /\ pc = "lnk"
    /\ LET shortcut == CreateShortCut(path)
           resolved == IconPathOf(shortcut.IconLocation, shortcut.TargetPath)
       IN  /\ icon_path' = resolved
           /\ icon_index' = IconIndexOf(shortcut.IconLocation)
           /\ IF os_path_exists(resolved)
              THEN exe_path' = resolved /\ pc' = "file"
              ELSE exe_path' = exe_path /\ pc' = "store"
    /\ UNCHANGED <<scanVars, fi, di, path, call_args, icon_handle, bitmap_bits,
                   image, img_bytes, held, resultVars, reportVars>>

\* lines 180-188
ExtractIconFromUrl ==
    /\ pc = "url"
    /\ LET parser == ParseUrlFile(path)
           found == {t \in parser : t[1] = InternetShortcut /\ t[2] = IconFile}
       IN  IF found # {}
           THEN LET value == (CHOOSE t \in found : TRUE)[3]
                IN  /\ icon_path' = value
                    /\ IF os_path_exists(value)
                       THEN exe_path' = value /\ pc' = "file"
                       ELSE exe_path' = exe_path /\ pc' = "store"
           ELSE /\ icon_path' = icon_path
                /\ exe_path' = exe_path
                /\ pc' = "store"
    /\ UNCHANGED <<scanVars, fi, di, path, icon_index, call_args, icon_handle,
                   bitmap_bits, image, img_bytes, held, resultVars,
                   reportVars>>

-----------------------------------------------------------------------------
(* extract_icon_from_file, get_icon_handle, create_icon_bitmap             *)

\* line 62
FirstIcon(large_icons, small_icons) ==
    IF large_icons # <<>> THEN large_icons[1]
    ELSE IF small_icons # <<>> THEN small_icons[1]
    ELSE None

\* lines 129-132: what extract_icon_from_file releases
Released(handle) == {"bitmap", "mem_dc", "dc_handle", handle}

\* lines 61-62 and 118-120
GetIconHandle ==
    /\ pc = "file"
    /\ LET nIconIndex == IconIndexArg(icon_index)
           got == ExtractIconEx(exe_path, nIconIndex)
           handle == FirstIcon(got.large, got.small)
       IN  /\ call_args' = <<exe_path, nIconIndex>>
           /\ held' = held \cup Range(got.large) \cup Range(got.small)
           /\ icon_handle' = handle
           /\ pc' = IF handle = None THEN "store" ELSE "getdc"
    /\ UNCHANGED <<scanVars, fi, di, path, icon_path, icon_index, exe_path,
                   bitmap_bits, image, img_bytes, resultVars, reportVars>>

\* line 81
GetDC ==
    /\ pc = "getdc"
    /\ held' = held \cup {"dc_handle"}
    /\ pc' = "memdc"
    /\ UNCHANGED <<scanVars, fi, di, frameVars, resultVars, reportVars>>

\* line 82
CreateCompatibleDC ==
    /\ pc = "memdc"
    /\ held' = held \cup {"mem_dc"}
    /\ pc' = "bitmap"
    /\ UNCHANGED <<scanVars, fi, di, frameVars, resultVars, reportVars>>

\* line 83
CreateCompatibleBitmap ==
    /\ pc = "bitmap"
    /\ held' = held \cup {"bitmap"}
    /\ pc' = "draw"
    /\ UNCHANGED <<scanVars, fi, di, frameVars, resultVars, reportVars>>

\* lines 84-89
DrawIconEx ==
    /\ pc = "draw"
    /\ bitmap_bits' = IconBits(exe_path)
    /\ pc' = "convert"
    /\ UNCHANGED <<scanVars, fi, di, path, icon_path, icon_index, exe_path,
                   call_args, icon_handle, image, img_bytes, held,
                   resultVars, reportVars>>

\* line 105: Image.frombuffer("RGBA", size, bmpstr, "raw", "BGRA")
FromBGRA(bits) == <<bits[3], bits[2], bits[1], bits[4]>>

\* lines 104-105 and 126
ConvertBitmapToImage ==
    /\ pc = "convert"
    /\ image' = FromBGRA(bitmap_bits)
    /\ pc' = "cleanup"
    /\ UNCHANGED <<scanVars, fi, di, path, icon_path, icon_index, exe_path,
                   call_args, icon_handle, bitmap_bits, img_bytes, held,
                   resultVars, reportVars>>

\* lines 129-132
CleanUp ==
    /\ pc = "cleanup"
    /\ held' = held \ Released(icon_handle)
    /\ pc' = "save"
    /\ UNCHANGED <<scanVars, fi, di, frameVars, resultVars, reportVars>>

\* lines 135-138: PNG is lossless, the buffer holds the image
SavePng ==
    /\ pc = "save"
    /\ img_bytes' = image
    /\ pc' = "store"
    /\ UNCHANGED <<scanVars, fi, di, path, icon_path, icon_index, exe_path,
                   call_args, icon_handle, bitmap_bits, image, held,
                   resultVars, reportVars>>

\* The positions inside the try block at which a system call can fail.
RaisePoints == {"lnk", "url", "file", "getdc", "memdc", "bitmap", "draw",
                "convert", "cleanup", "save"}

\* The call about to run raises: control leaves for the except clause.
Raise ==
    /\ pc \in RaisePoints
    /\ pc' = "except"
    /\ UNCHANGED <<scanVars, fi, di, frameVars, held, resultVars, reportVars>>

-----------------------------------------------------------------------------
(* __main__                                                                *)

\* line 239
SortIcons ==
    /\ pc = "sort"
    /\ sorted_icons' = sort_icons_by_color(icons)
    /\ pc' = "print"
    /\ UNCHANGED <<scanVars, fi, di, frameVars, held, resultVars, out>>

\* lines 241-247
Report(sorted, unsorted) ==
    [sorted |-> [i \in 1..Len(sorted) |-> SortedLine(i, sorted[i].path)],
     heading |-> unsorted # <<>>,
     unsortable |-> JoinNames(unsorted)]

PrintReport ==
    /\ pc = "print"
    /\ out' = Report(sorted_icons, unsortable)
    /\ pc' = "done"
    /\ UNCHANGED <<scanVars, fi, di, frameVars, held, resultVars, sorted_icons>>

Next ==
    \/ GetIconsBegin
    \/ SkipMissing
    \/ EnterShortcut
    \/ EnterUrl
    \/ Unsupported
    \/ ExtractIconFromShortcut
    \/ ExtractIconFromUrl
    \/ GetIconHandle
    \/ GetDC
    \/ CreateCompatibleDC
    \/ CreateCompatibleBitmap
    \/ DrawIconEx
    \/ ConvertBitmapToImage
    \/ CleanUp
    \/ SavePng
    \/ Raise
    \/ StoreIcon
    \/ HandleException
    \/ ReturnIcons
    \/ SortIcons
    \/ PrintReport

Spec == Init /\ [][Next]_vars

-----------------------------------------------------------------------------
(* Properties                                                              *)

Count(seq, x) == Cardinality({i \in 1..Len(seq) : seq[i] = x})

TracePaths == [i \in 1..Len(trace) |-> trace[i].path]

\* get_icons has returned.
AfterScan == pc \in {"sort", "print", "done"}

\* The drawing resources extract_icon_from_file works with.
DrawingResources == {icon_handle, "dc_handle", "mem_dc", "bitmap"}

\* C1: whenever an icon extraction has returned (pc = "store") or raised
\* (pc = "except"), none of the icon handle, the screen device context, the
\* memory device context and the bitmap it acquired is still held.
C1_ResourcesReleasedOnEveryExit ==
    pc \in {"store", "except"} => held \cap DrawingResources = {}

\* The declared icon path and the target path of a link are both absent from disk.
LnkBothAbsent(p) ==
    LET shortcut == CreateShortCut(p)
    IN  /\ ~os_path_exists(Partition(shortcut.IconLocation, Comma)[1])
        /\ ~os_path_exists(shortcut.TargetPath)

\* C2: once get_icons has returned, a scanned .lnk path whose declared icon
\* path and target are both absent, for which the extraction returned no icon,
\* is no key of the catalog and occurs exactly once in the unsortable list.
C2_LnkWithoutIconIsUnsortable ==
    AfterScan =>
        \A i \in 1..Len(trace) :
            (/\ IsShortcut(trace[i].path)
             /\ trace[i].result = "no icon"
             /\ LnkBothAbsent(trace[i].path))
            => /\ trace[i].path \notin Keys(icons)
               /\ Count(unsortable, trace[i].path) = 1

\* The .url file has no InternetShortcut section or no IconFile key in it.
UrlLacksIconFile(p) ==
    \A t \in ParseUrlFile(p) : ~(t[1] = InternetShortcut /\ t[2] = IconFile)

\* C3: once get_icons has returned, a scanned .url path without an
\* InternetShortcut section or without an IconFile key, for which the
\* extraction returned no icon, is no key of the catalog and occurs exactly
\* once in the unsortable list.
C3_UrlWithoutIconIsUnsortable ==
    AfterScan =>
        \A i \in 1..Len(trace) :
            (/\ IsUrl(trace[i].path)
             /\ trace[i].result = "no icon"
             /\ UrlLacksIconFile(trace[i].path))
            => /\ trace[i].path \notin Keys(icons)
               /\ Count(unsortable, trace[i].path) = 1

\* C4: a name on both desktops is processed once per directory: each of its
\* two full paths is classified at most once while get_icons runs, exactly
\* once when it has returned, and is at most once in the unsortable list.
C4_EachPathProcessedOnce ==
    \A n \in Range(userDir) \cap Range(publicDir) :
        \A d \in 1..Len(Desktops) :
            LET p == PathJoin(Desktops[d], n)
            IN  /\ Count(TracePaths, p) <= 1
                /\ Count(unsortable, p) <= 1
                /\ AfterScan => Count(TracePaths, p) = 1

\* C5: in every state no path ending in desktop.ini is a key of the catalog
\* or an element of the unsortable list, whichever directory it is in.
C5_DesktopIniExcluded ==
    \A p \in Keys(icons) \cup Range(unsortable) : ~EndsWith(p, desktop_ini)

\* desktop.ini was scanned in the public and in the user directory, next to
\* a file that did go to the unsortable list.
C5_Witness ==
    /\ AfterScan
    /\ unsortable # <<>>
    /\ \A d \in 1..Len(Desktops) :
          \E i \in 1..Len(trace) :
              /\ trace[i].path = PathJoin(Desktops[d], desktop_ini)
              /\ trace[i].result = "ignored"

\* The (file, directory) pairs of the scan whose path exists.
ExistingPairs ==
    {fd \in (1..Len(files)) \X (1..Len(Desktops)) :
        os_path_exists(PathJoin(Desktops[fd[2]], files[fd[1]]))}

\* Position of the scan, counted in (file, directory) pairs.
PairNumber(f, d) == (f - 1) * Len(Desktops) + d

\* Rank of a position within the processing of one (file, directory) pair.
StepRank ==
    CASE pc = "start" -> 0
      [] pc = "loop" -> 1
      [] pc \in {"lnk", "url"} -> 2
      [] pc = "file" -> 3
      [] pc = "getdc" -> 4
      [] pc = "memdc" -> 5
      [] pc = "bitmap" -> 6
      [] pc = "draw" -> 7
      [] pc = "convert" -> 8
      [] pc = "cleanup" -> 9
      [] pc = "save" -> 10
      [] pc \in {"store", "sort"} -> 11
      [] pc \in {"except", "print"} -> 12
      [] OTHER -> 13

\* A step of get_icons or of the extraction it calls.
GetIconsStep ==
    \/ GetIconsBegin \/ SkipMissing \/ EnterShortcut \/ EnterUrl \/ Unsupported
    \/ ExtractIconFromShortcut \/ ExtractIconFromUrl \/ GetIconHandle \/ GetDC
    \/ CreateCompatibleDC \/ CreateCompatibleBitmap \/ DrawIconEx
    \/ ConvertBitmapToImage \/ CleanUp \/ SavePng \/ Raise \/ StoreIcon
    \/ HandleException \/ ReturnIcons

\* Progress of the run: the pair reached, then the step within the pair.
Progress == <<PairNumber(fi, di), StepRank>>

\* C6: the step that handles an exception logs the path, leaves the catalog
\* and the unsortable list as they are and moves to the next (file,
\* directory) pair; when get_icons has returned every existing pair has been
\* processed; and the scan always reaches its end: until get_icons has
\* returned one of its steps is possible, and every step advances the run
\* towards the end of the scan.
C6_ExceptionSkipsOnePath ==
    /\ [][pc = "except" =>
            /\ icons' = icons
            /\ unsortable' = unsortable
            /\ errlog' = Append(errlog, path)
            /\ pc' = "loop"
            /\ PairNumber(fi', di') = PairNumber(fi, di) + 1]_vars
    /\ [](AfterScan =>
            /\ fi = Len(files) + 1
            /\ Len(trace) = Cardinality(ExistingPairs)
            /\ \A fd \in ExistingPairs :
                  PathJoin(Desktops[fd[2]], files[fd[1]]) \in Range(TracePaths))
    /\ [](AfterScan \/ ENABLED GetIconsStep)
    /\ [](PairNumber(fi, di) <= PairNumber(Len(files) + 1, 1))
    /\ [][\/ Progress'[1] > Progress[1]
          \/ Progress'[1] = Progress[1] /\ Progress'[2] > Progress[2]]_vars

\* An extraction failed, a later path still got its icon, and the run ended.
C6_Witness ==
    /\ pc = "done"
    /\ \E i \in 1..Len(trace) : \E j \in (i + 1)..Len(trace) :
          /\ trace[i].result = "error"
          /\ trace[j].result = "icon"
          /\ trace[j].path # trace[i].path

HueOf(item) == get_average_hue(item.img)
HueEqual(h1, h2) == h1[1] * h2[2] = h2[1] * h1[2]
\* Position of a key in the catalog.
CatalogIndex(k) == CHOOSE i \in 1..Len(icons) : icons[i].path = k
\* hue >= 0.99
NearOne(h) == 100 * h[1] >= 99 * h[2]

\* C7: sort_icons_by_color returns a permutation of the catalog's entries in
\* non-decreasing hue, entries of equal hue keep their catalog order, and an
\* entry with a hue near 1.0 comes after every entry with hue 0.0.
C7_SortedByHueStable ==
    pc \in {"print", "done"} =>
        /\ Len(sorted_icons) = Len(icons)
        /\ Range(sorted_icons) = Range(icons)
        /\ \A i \in 1..Len(sorted_icons) : \A j \in (i + 1)..Len(sorted_icons) :
              /\ ~HueLess(HueOf(sorted_icons[j]), HueOf(sorted_icons[i]))
              /\ HueEqual(HueOf(sorted_icons[i]), HueOf(sorted_icons[j]))
                 => CatalogIndex(sorted_icons[i].path) < CatalogIndex(sorted_icons[j].path)
        /\ \A i \in 1..Len(sorted_icons) : \A j \in 1..Len(sorted_icons) :
              (HueOf(sorted_icons[i])[1] = 0 /\ NearOne(HueOf(sorted_icons[j]))) => i < j

\* Sorted: two entries of equal hue, and an entry with a hue near 1.0 that
\* the catalog held before an entry with hue 0.0.
C7_Witness ==
    /\ pc = "done"
    /\ \E i \in 1..Len(sorted_icons) : \E j \in (i + 1)..Len(sorted_icons) :
          HueEqual(HueOf(sorted_icons[i]), HueOf(sorted_icons[j]))
    /\ \E i \in 1..Len(icons) : \E j \in (i + 1)..Len(icons) :
          NearOne(HueOf(icons[i])) /\ HueOf(icons[j])[1] = 0

\* The name printed for a key: no directory, cut at the first period.
IsPrintedName(name, key) ==
    /\ \A i \in 1..Len(name) : name[i] \notin {".", "\\"}
    /\ \E d \in 1..Len(Desktops) : \E rest \in {SubSeq(key, i, Len(key)) : i \in 1..(Len(key) + 1)} :
          /\ key = Desktops[d] \o <<"\\">> \o name \o rest
          /\ rest = <<>> \/ rest[1] = "."

RECURSIVE SplitNames(_)
\* The names of a line of names separated by ", ".
SplitNames(line) ==
    IF line = <<>> THEN <<>>
    ELSE LET parts == Partition(line, ",")
         IN  <<parts[1]>> \o (IF parts[3] = <<>> THEN <<>> ELSE SplitNames(Tail(parts[3])))

Orderings(n) == {f \in [1..n -> 1..n] : \A i \in 1..n : \A j \in 1..n : f[i] = f[j] => i = j}

\* C8: at the end of the run the catalog entries are printed numbered from 1
\* in ascending hue order, each as its file name cut at the first period; the
\* "Unable to sort" section is printed exactly when the unsortable list is
\* not empty and lists the file names of its entries in scan order; with
\* A.lnk (blue) and B.lnk (red) on the user desktop and C.txt on the public
\* one, and no failure, the output is "1. B", "2. A" and "C.txt".
C8_Report ==
    pc = "done" =>
        /\ Len(out.sorted) = Len(icons)
        /\ \E order \in Orderings(Len(icons)) :
              /\ \A i \in 1..Len(icons) : \A j \in (i + 1)..Len(icons) :
                    ~HueLess(HueOf(icons[order[j]]), HueOf(icons[order[i]]))
              /\ \A i \in 1..Len(icons) :
                    LET line == out.sorted[i]
                        number == Partition(line, ".")[1]
                    IN  /\ IsDigit(number) /\ ToInt(number) = i
                        /\ SubSeq(line, Len(number) + 1, Len(number) + 2) = <<".", " ">>
                        /\ IsPrintedName(SubSeq(line, Len(number) + 3, Len(line)),
                                         icons[order[i]].path)
        /\ out.heading <=> unsortable # <<>>
        /\ LET names == SplitNames(out.unsortable)
           IN  /\ Len(names) = Len(unsortable)
               /\ \A i \in 1..Len(names) : \E d \in 1..Len(Desktops) :
                     unsortable[i] = Desktops[d] \o <<"\\">> \o names[i]
        /\ (userDir = <<A_lnk, B_lnk>> /\ publicDir = <<C_txt>> /\ errlog = <<>>)
           => out = [sorted |-> << <<"1", ".", " ", "B">>, <<"2", ".", " ", "A">> >>,
                     heading |-> TRUE,
                     unsortable |-> C_txt]

\* The run of the example has ended without a failure.
C8_Witness ==
    /\ pc = "done"
    /\ userDir = <<A_lnk, B_lnk>>
    /\ publicDir = <<C_txt>>
    /\ errlog = <<>>
    /\ Len(out.sorted) = 2

\* The part of an icon location before its first comma.
BeforeFirstComma(location) ==
    LET k == CHOOSE k \in 0..Len(location) :
                /\ \A i \in 1..k : location[i] # Comma
                /\ k = Len(location) \/ location[k + 1] = Comma
    IN  SubSeq(location, 1, k)

\* The file a link's icon comes from: the declared path, else the target.
ResolvedIconFile(p) ==
    LET shortcut == CreateShortCut(p)
        declared == BeforeFirstComma(shortcut.IconLocation)
    IN  IF declared = <<>> THEN shortcut.TargetPath ELSE declared

\* Positions reached after extract_icon_from_shortcut has resolved the link.
AfterResolution == {"file", "getdc", "memdc", "bitmap", "draw", "convert",
                    "cleanup", "save", "store"}

Kept ==
    /\ Keys(icons) \subseteq Keys(icons')
    /\ Len(unsortable) <= Len(unsortable')
    /\ SubSeq(unsortable', 1, Len(unsortable)) = unsortable

\* C10: in every state the catalog's keys and the unsortable list's elements
\* are disjoint, every key ends in .lnk or .url and maps to an icon, no
\* unsortable element ends in .lnk or .url, and no step removes a path from
\* either collection.
C10_CatalogAndUnsortableDisjoint ==
    /\ [](/\ Keys(icons) \cap Range(unsortable) = {}
          /\ \A i \in 1..Len(icons) :
                /\ IsShortcut(icons[i].path) \/ IsUrl(icons[i].path)
                /\ icons[i].img # <<>>
          /\ \A u \in Range(unsortable) : ~IsShortcut(u) /\ ~IsUrl(u))
    /\ [][Kept]_vars

\* Both collections are filled, and a link without an icon was scanned.
C10_Witness ==
    /\ AfterScan
    /\ icons # <<>>
    /\ unsortable # <<>>
    /\ \E i \in 1..Len(trace) : trace[i].result = "no icon"

====
